---- MODULE Spec2Model ----
(***************************************************************************)
(* Model of app.py, the "Short-Term Option Analyzer".                      *)
(*                                                                         *)
(*   score_option  (lines 13-149)  the scoring engine                      *)
(*   main          (lines 151-252) the upload loop over the rows           *)
(*                                                                         *)
(* Numbers of the program are floats; the model keeps them as scaled       *)
(* integers so that every comparison of the code is an exact integer       *)
(* comparison: prices, moving averages, strike and premium in cents, delta *)
(* in hundredths, moneyness percent in tenths of a percent, the moneyness  *)
(* ratio in thousandths.  RSI, IV, volume, open interest and days are      *)
(* whole numbers.  A reason is the fixed head of the string the code       *)
(* appends (the formatted numbers of an f-string are left out).            *)
(***************************************************************************)
EXTENDS Integers, Sequences, FiniteSets, TLC

VARIABLES
    \* main: the upload loop
    nrows,      \* number of rows of the sorted, truncated dataframe
    idx,        \* position of the row the for loop is at (1-based)
    phase,      \* "loop" while main iterates, "done" when main is over
    reports,    \* the per-row st.error messages, in order
    verdicts,   \* the rendered verdicts (st.write of verdict and reasons)
    fileError,  \* the exception the outer handler (line 249) reported
    \* one call of score_option
    args,       \* the thirteen arguments of the call
    strike,     \* the caller's local variable strike (line 188)
    result,     \* what the call ended in
    \* the liquidity block (lines 59-73) applied to two observations
    liqIn, liqOut,
    \* the verdict block (lines 138-147) applied to a score
    scoreIn, verdictOut

vars == <<nrows, idx, phase, reports, verdicts, fileError,
          args, strike, result, liqIn, liqOut, scoreIn, verdictOut>>

mainVars    == <<nrows, idx, phase, reports, verdicts, fileError>>
callVars    == <<args, strike, result>>
liqVars     == <<liqIn, liqOut>>
verdictVars == <<scoreIn, verdictOut>>

----------------------------------------------------------------------------
(* Bounds of the model.                                                    *)

\* rows in an uploaded batch (the program keeps at most HeadRows)
MaxRows == 3
\* scores fed to the verdict block range over -MaxScore..MaxScore
MaxScore == 30

\* df.sort_values(...).head(10)
HeadRows == 10

RECURSIVE SumSeq(_)
SumSeq(s) == IF s = <<>> THEN 0 ELSE Head(s) + SumSeq(Tail(s))

Max2(a, b) == IF a >= b THEN a ELSE b

----------------------------------------------------------------------------
(* score_option: the category blocks.  Each yields the amount added to     *)
(* score (pts) and the reasons appended (why: empty or one reason).        *)

Cat(p, w) == [pts |-> p, why |-> w]

\* Trend with a seeded fault: "or" where the code has "and"
TrendWrongOr(a) ==
    IF a.option_type = "call"
    THEN IF a.stock_price > a.ma20 \/ a.stock_price > a.ma50
         THEN Cat(2, <<"Strong uptrend">>)
         ELSE Cat(0, <<"Weak uptrend or downtrend">>)
    ELSE IF a.stock_price < a.ma20 \/ a.stock_price < a.ma50
         THEN Cat(2, <<"Strong downtrend">>)
         ELSE Cat(0, <<"Weak downtrend or uptrend">>)

\* lines 18-23 (call) and 29-34 (any other option_type)
Trend(a) ==
    IF a.option_type = "call"
    THEN IF a.stock_price > a.ma20 /\ a.stock_price > a.ma50
         THEN Cat(2, <<"Strong uptrend">>)
         ELSE Cat(0, <<"Weak uptrend or downtrend">>)
    ELSE IF a.stock_price < a.ma20 /\ a.stock_price < a.ma50
         THEN Cat(2, <<"Strong downtrend">>)
         ELSE Cat(0, <<"Weak downtrend or uptrend">>)

\* lines 24-28 (call) and 35-39 (any other option_type): no else branch
Momentum(a) ==
    IF a.option_type = "call"
    THEN IF 50 <= a.rsi /\ a.rsi <= 70 THEN Cat(1, <<"RSI in bullish range">>)
         ELSE IF a.rsi > 70 THEN Cat(0, <<"RSI high">>)
         ELSE Cat(0, <<>>)
    ELSE IF 30 <= a.rsi /\ a.rsi <= 50 THEN Cat(1, <<"RSI in bearish range">>)
         ELSE IF a.rsi < 30 THEN Cat(0, <<"RSI low">>)
         ELSE Cat(0, <<>>)

\* lines 41-48; delta in hundredths
DeltaTier(a) ==
    IF a.delta >= 70 THEN Cat(2, <<"High delta">>)
    ELSE IF 35 <= a.delta /\ a.delta < 70 THEN Cat(1, <<"Moderate delta">>)
    ELSE Cat(0, <<"Low delta">>)

\* lines 50-57
IVTier(a) ==
    IF a.iv > 150 THEN Cat(0, <<"Very high IV">>)
    ELSE IF 80 <= a.iv /\ a.iv <= 150 THEN Cat(1, <<"Moderate IV">>)
    ELSE Cat(1, <<"Low IV">>)

\* Liquidity with a seeded fault: the moderate tier adds 2
LiquidityWrongTier(volume, open_interest) ==
    IF volume >= 500
    THEN IF open_interest >= 500 THEN Cat(2, <<"High liquidity">>)
         ELSE Cat(1, <<"High volume">>)
    ELSE IF volume >= 100
    THEN IF open_interest >= 100 THEN Cat(2, <<"Moderate liquidity">>)
         ELSE Cat(0, <<"Moderate volume, low open interest">>)
    ELSE Cat(0, <<"Low liquidity">>)

\* lines 59-73
Liquidity(volume, open_interest) ==
    IF volume >= 500
    THEN IF open_interest >= 500 THEN Cat(2, <<"High liquidity">>)
         ELSE Cat(1, <<"High volume">>)
    ELSE IF volume >= 100
    THEN IF open_interest >= 100 THEN Cat(1, <<"Moderate liquidity">>)
         ELSE Cat(0, <<"Moderate volume, low open interest">>)
    ELSE Cat(0, <<"Low liquidity">>)

\* lines 75-88
TimeDecay(a) ==
    IF a.days_to_exp <= 5
    THEN IF a.delta >= 70
         THEN Cat(2, <<"Very short time to expiration with high delta">>)
         ELSE Cat(0, <<"Very short time to expiration with low delta">>)
    ELSE IF 6 <= a.days_to_exp /\ a.days_to_exp <= 14
    THEN Cat(2, <<"Moderate time to expiration">>)
    ELSE IF 15 <= a.days_to_exp /\ a.days_to_exp <= 30
    THEN Cat(1, <<"Longer time to expiration">>)
    ELSE Cat(0, <<"Expiration beyond 30 days">>)

\* lines 90-113; moneyness_ratio in thousandths
Moneyness(a) ==
    IF a.option_type = "call"
    THEN IF a.moneyness_ratio >= 1050 THEN Cat(2, <<"Deep ITM call">>)
         ELSE IF 1000 <= a.moneyness_ratio /\ a.moneyness_ratio < 1050
         THEN Cat(1, <<"Slightly ITM call">>)
         ELSE IF 950 <= a.moneyness_ratio /\ a.moneyness_ratio < 1000
         THEN Cat(1, <<"Near ATM call">>)
         ELSE Cat(0, <<"OTM call">>)
    ELSE IF a.moneyness_ratio <= 950 THEN Cat(2, <<"Deep ITM put">>)
         ELSE IF 950 < a.moneyness_ratio /\ a.moneyness_ratio <= 1000
         THEN Cat(1, <<"Slightly ITM put">>)
         ELSE IF 1000 < a.moneyness_ratio /\ a.moneyness_ratio <= 1050
         THEN Cat(1, <<"Near ATM put">>)
         ELSE Cat(0, <<"OTM put">>)

\* value_ratio <= k/10, with value_ratio = extrinsic / premium, or 0 when
\* premium = 0 (line 122), compared without dividing
RatioLeq(extrinsic, premium, k) ==
    IF premium = 0 THEN 0 <= k
    ELSE IF premium > 0 THEN 10 * extrinsic <= k * premium
    ELSE 10 * extrinsic >= k * premium

\* lines 116-135, given the value the name strike resolves to
PremiumComposition(a, strikeValue) ==
    LET intrinsic_value ==
            IF a.option_type = "call"
            THEN Max2(0, a.stock_price - strikeValue)
            ELSE Max2(0, strikeValue - a.stock_price)
        extrinsic_value == a.premium - intrinsic_value
    IN  IF intrinsic_value > 0 /\ RatioLeq(extrinsic_value, a.premium, 3)
        THEN Cat(2, <<"Mostly intrinsic value">>)
        ELSE IF RatioLeq(extrinsic_value, a.premium, 6)
        THEN Cat(1, <<"Decent balance of intrinsic and extrinsic">>)
        ELSE IF ~RatioLeq(extrinsic_value, a.premium, 9)
        THEN Cat(-2, <<"Mostly extrinsic value">>)
        ELSE Cat(0, <<"Premium mix ok">>)

\* VerdictOf with a seeded fault: "> 9" where the code has ">= 9"
VerdictOfWrongEdge(score) ==
    IF score > 9 THEN "Strong Buy"
    ELSE IF score >= 7 THEN "Buy"
    ELSE IF score >= 5 THEN "Mild Buy"
    ELSE IF score >= 3 THEN "Hold"
    ELSE "Avoid"

\* lines 138-147
VerdictOf(score) ==
    IF score >= 9 THEN "Strong Buy"
    ELSE IF score >= 7 THEN "Buy"
    ELSE IF score >= 5 THEN "Mild Buy"
    ELSE IF score >= 3 THEN "Hold"
    ELSE "Avoid"

----------------------------------------------------------------------------
(* Name resolution inside score_option.                                    *)

\* the parameters of score_option (lines 13-14)
ScoreOptionParams ==
    {"stock_price", "ma20", "ma50", "rsi", "delta", "iv", "volume",
     "open_interest", "days_to_exp", "option_type", "moneyness_pct",
     "moneyness_ratio", "premium"}

\* the names score_option assigns (its other locals)
ScoreOptionLocals ==
    {"score", "reasons", "intrinsic_value", "extrinsic_value", "value_ratio",
     "verdict"}

\* the names bound at module level: the imports (lines 1-4) and the three
\* functions (lines 6, 13, 151); each maps to the object it names
ModuleGlobals ==
    [n \in {"st", "yf", "datetime", "timedelta", "pd",
            "get_days_to_expiration", "score_option", "main"} |-> n]

\* whether a name read in score_option that is no parameter and no local of
\* it is found at module level
Resolves(name) == name \in DOMAIN ModuleGlobals

\* score_option, lines 13-149.  points lists the amount each evaluated
\* category added to score, in evaluation order; score and reasons are the
\* locals as they stand when the call ends.  Lines 117/119 read the name
\* strike, which is neither a parameter nor a local: it is looked up at
\* module level and the call ends in NameError when it is not bound there.
ScoreOption(a) ==
    LET head  == <<Trend(a), Momentum(a), DeltaTier(a), IVTier(a),
                   Liquidity(a.volume, a.open_interest), TimeDecay(a),
                   Moneyness(a)>>
        pts7  == [i \in 1..7 |-> head[i].pts]
        why7  == head[1].why \o head[2].why \o head[3].why \o head[4].why
                   \o head[5].why \o head[6].why \o head[7].why
    IN  IF "strike" \in ScoreOptionParams \cup ScoreOptionLocals
           \/ Resolves("strike")
        THEN LET c8 == PremiumComposition(a, ModuleGlobals["strike"])
                 sc == SumSeq(pts7) + c8.pts
             IN  [outcome |-> "returned",
                  score   |-> sc,
                  reasons |-> why7 \o c8.why,
                  points  |-> Append(pts7, c8.pts),
                  verdict |-> VerdictOf(sc)]
        ELSE [outcome |-> "NameError",
              score   |-> SumSeq(pts7),
              reasons |-> why7,
              points  |-> pts7,
              verdict |-> "none"]

NoResult ==
    [outcome |-> "pending", score |-> 0, reasons |-> <<>>, points |-> <<>>,
     verdict |-> "none"]

----------------------------------------------------------------------------
(* main: what it computes for a row before the call (lines 220-222).       *)

\* datetime.date(): a date keeps the day and drops the time of day
DateOf(d) == [day |-> d.day, hour |-> 0, isDatetime |-> FALSE]

\* lines 6-11; a date or datetime is [day, hour, isDatetime]
GetDaysToExpiration(expiration_date, purchase_date) ==
    LET e == IF expiration_date.isDatetime THEN DateOf(expiration_date)
             ELSE expiration_date
        p == IF purchase_date.isDatetime THEN DateOf(purchase_date)
             ELSE purchase_date
    IN  e.day - p.day

\* line 221: 1 + (moneyness_pct / 100); pct in tenths of a percent, the
\* ratio in thousandths
MoneynessRatio(moneyness_pct) == 1000 + moneyness_pct

\* line 222: str.lower() on the values of the Type column
Lower(s) ==
    CASE s \in {"Call", "CALL", "call"} -> "call"
      [] s \in {"Put", "PUT", "put"}    -> "put"
      [] s \in {"Straddle", "straddle"} -> "straddle"

\* the argument list of lines 224-227, from the values main holds
CallArgs(o) ==
    [stock_price     |-> o.current_price,
     ma20            |-> o.ma20,
     ma50            |-> o.ma50,
     rsi             |-> o.rsi,
     delta           |-> o.delta,
     iv              |-> o.iv,
     volume          |-> o.volume,
     open_interest   |-> o.open_interest,
     days_to_exp     |-> o.days_to_exp,
     option_type     |-> o.option_type,
     moneyness_pct   |-> o.moneyness_pct,
     moneyness_ratio |-> MoneynessRatio(o.moneyness_pct),
     premium         |-> o.premium]

----------------------------------------------------------------------------
(* One call of score_option over a grid of observations.                   *)

OptionTypes    == {"call", "put", "straddle"}
StockPrices    == {5000}
MA20s          == {4500, 5000, 5500}
MA50s          == {4500, 5500}
RSIs           == {20, 40, 60, 150}
Deltas         == {20, 50, 75}
IVs            == {70, 100, 200}
Volumes        == {0, 100, 500}
OpenInterests  == {0, 500}
DaysToExp      == {3, 10, 20, 40}
MoneynessPcts  == {-100, -20, 20, 100}
Premiums       == {0, 600}
Strikes        == {4500, 5500}

Observations ==
    [current_price : StockPrices, ma20 : MA20s, ma50 : MA50s, rsi : RSIs,
     delta : Deltas, iv : IVs, volume : Volumes,
     open_interest : OpenInterests, days_to_exp : DaysToExp,
     option_type : OptionTypes, moneyness_pct : MoneynessPcts,
     premium : Premiums]

NoArgs == CallArgs(CHOOSE o \in Observations : TRUE)

\* lines 224-227: the call runs to its end
Evaluate ==
    /\ result.outcome = "pending"
    /\ result' = ScoreOption(args)
    /\ UNCHANGED <<args, strike, mainVars, liqVars, verdictVars>>

----------------------------------------------------------------------------
(* The liquidity block applied to two observations.                        *)

LiquidityCounts == {0, 99, 100, 101, 499, 500, 501, 2000}

ApplyLiquidity ==
    /\ liqOut = <<>>
    /\ liqOut' = <<Liquidity(liqIn[1].volume, liqIn[1].open_interest).pts,
                   Liquidity(liqIn[2].volume, liqIn[2].open_interest).pts>>
    /\ UNCHANGED <<liqIn, mainVars, callVars, verdictVars>>

----------------------------------------------------------------------------
(* The verdict block applied to a score.                                   *)

ApplyVerdict ==
    /\ verdictOut = "none"
    /\ verdictOut' = VerdictOf(scoreIn)
    /\ UNCHANGED <<scoreIn, mainVars, callVars, liqVars>>

----------------------------------------------------------------------------
(* main: the loop over the rows (lines 179-250).  A row is read when the   *)
(* loop reaches it.                                                        *)

Min2(a, b) == IF a <= b THEN a ELSE b

\* the spec's scenarios as the values main holds for a row
StrongCall ==
    [current_price |-> 10000, ma20 |-> 9500, ma50 |-> 9000, rsi |-> 60,
     delta |-> 75, iv |-> 90, volume |-> 600, open_interest |-> 600,
     moneyness_pct |-> 53, premium |-> 600, strike |-> 9500]
ZeroPremiumPut ==
    [current_price |-> 5000, ma20 |-> 5500, ma50 |-> 6000, rsi |-> 40,
     delta |-> 50, iv |-> 90, volume |-> 600, open_interest |-> 600,
     moneyness_pct |-> -100, premium |-> 0, strike |-> 5500]

\* a row of the upload with what its processing meets: whether the
\* conversions of lines 188-193 succeed, what ticker.history gives, and
\* the Exp Date text (a day number when it has the format %Y-%m-%d)
Rows ==
    [Type    : {"Call", "put", "Straddle"},
     fields  : {"numeric", "malformed"},
     history : {"prices", "empty", "raises"},
     expOk   : BOOLEAN,
     expDay  : {10},
     market  : {StrongCall, ZeroPremiumPut}]

\* st.date_input gives a date; its default is today (day 0)
PurchaseDates == {[day |-> 0, hour |-> 0, isDatetime |-> FALSE],
                  [day |-> 7, hour |-> 0, isDatetime |-> FALSE]}

\* datetime.strptime(row['Exp Date'], "%Y-%m-%d"): midnight of that day
Strptime(row) == [day |-> row.expDay, hour |-> 0, isDatetime |-> TRUE]

Report(i, what) == [row |-> i, what |-> what]

\* lines 187-196: a conversion raises; st.error, continue
RowConversionError ==
    /\ phase = "loop" /\ idx <= nrows
    /\ \E row \in Rows :
         /\ row.fields = "malformed"
         /\ reports' = Append(reports, Report(idx, "data conversion error"))
    /\ idx' = idx + 1
    /\ UNCHANGED <<nrows, phase, verdicts, fileError, callVars, liqVars,
                   verdictVars>>

\* lines 201-203: no price history; st.error, continue
RowNoHistory ==
    /\ phase = "loop" /\ idx <= nrows
    /\ \E row \in Rows :
         /\ row.fields = "numeric" /\ row.history = "empty"
         /\ reports' = Append(reports, Report(idx, "failed to fetch"))
    /\ idx' = idx + 1
    /\ UNCHANGED <<nrows, phase, verdicts, fileError, callVars, liqVars,
                   verdictVars>>

\* lines 198-218: the fetch raises; st.error, continue
RowFetchError ==
    /\ phase = "loop" /\ idx <= nrows
    /\ \E row \in Rows :
         /\ row.fields = "numeric" /\ row.history = "raises"
         /\ reports' = Append(reports, Report(idx, "error fetching"))
    /\ idx' = idx + 1
    /\ UNCHANGED <<nrows, phase, verdicts, fileError, callVars, liqVars,
                   verdictVars>>

\* line 220: strptime raises ValueError outside the two inner try blocks;
\* the handler of line 249 catches it and main is over
RowBadExpDate ==
    /\ phase = "loop" /\ idx <= nrows
    /\ \E row \in Rows :
         /\ row.fields = "numeric" /\ row.history = "prices"
         /\ ~row.expOk
    /\ fileError' = "ValueError"
    /\ phase' = "done"
    /\ UNCHANGED <<nrows, idx, reports, verdicts, callVars, liqVars,
                   verdictVars>>

\* lines 220-247: the row is scored and rendered, or the call raises and
\* the handler of line 249 catches it and main is over
RowScore ==
    /\ phase = "loop" /\ idx <= nrows
    /\ \E row \in Rows, purchase_date \in PurchaseDates :
         /\ row.fields = "numeric" /\ row.history = "prices" /\ row.expOk
         /\ LET m == row.market
                o == [current_price |-> m.current_price, ma20 |-> m.ma20,
                      ma50 |-> m.ma50, rsi |-> m.rsi, delta |-> m.delta,
                      iv |-> m.iv, volume |-> m.volume,
                      open_interest |-> m.open_interest,
                      days_to_exp |->
                          GetDaysToExpiration(Strptime(row), purchase_date),
                      option_type |-> Lower(row.Type),
                      moneyness_pct |-> m.moneyness_pct,
                      premium |-> m.premium]
                r == ScoreOption(CallArgs(o))
            IN  IF r.outcome = "returned"
                THEN /\ verdicts' = Append(verdicts,
                            [row |-> idx, verdict |-> r.verdict,
                             reasons |-> r.reasons])
                     /\ idx' = idx + 1
                     /\ UNCHANGED <<phase, fileError>>
                ELSE /\ fileError' = r.outcome
                     /\ phase' = "done"
                     /\ UNCHANGED <<idx, verdicts>>
    /\ UNCHANGED <<nrows, reports, callVars, liqVars, verdictVars>>

\* line 179: no row is left
LoopEnd ==
    /\ phase = "loop" /\ idx > nrows
    /\ phase' = "done"
    /\ UNCHANGED <<nrows, idx, reports, verdicts, fileError, callVars,
                   liqVars, verdictVars>>

----------------------------------------------------------------------------
(* Specifications.                                                         *)

MainIdle ==
    /\ nrows = 0 /\ idx = 1 /\ phase = "done" /\ reports = <<>>
    /\ verdicts = <<>> /\ fileError = "none"
CallIdle    == args = NoArgs /\ strike = 0 /\ result = NoResult
LiqIdle     == liqIn = <<>> /\ liqOut = <<>>
VerdictIdle == scoreIn = 0 /\ verdictOut = "none"

\* main on an uploaded file of up to MaxRows rows
Init ==
    /\ nrows \in 0..Min2(MaxRows, HeadRows)
    /\ idx = 1 /\ phase = "loop" /\ reports = <<>> /\ verdicts = <<>>
    /\ fileError = "none"
    /\ CallIdle /\ LiqIdle /\ VerdictIdle

Next ==
    \/ RowConversionError
    \/ RowNoHistory
    \/ RowFetchError
    \/ RowBadExpDate
    \/ RowScore
    \/ LoopEnd

Spec == Init /\ [][Next]_vars

\* one call of score_option
InitScore ==
    /\ \E o \in Observations : args = CallArgs(o)
    /\ strike \in Strikes
    /\ result = NoResult
    /\ MainIdle /\ LiqIdle /\ VerdictIdle

SpecScore == InitScore /\ [][Evaluate]_vars

\* the liquidity block on two observations
InitLiquidity ==
    /\ liqIn \in [1..2 -> [volume : LiquidityCounts,
                           open_interest : LiquidityCounts]]
    /\ liqOut = <<>>
    /\ MainIdle /\ CallIdle /\ VerdictIdle

SpecLiquidity == InitLiquidity /\ [][ApplyLiquidity]_vars

\* the verdict block on a score
InitVerdict ==
    /\ scoreIn \in (0 - MaxScore)..MaxScore
    /\ verdictOut = "none"
    /\ MainIdle /\ CallIdle /\ LiqIdle

SpecVerdict == InitVerdict /\ [][ApplyVerdict]_vars

----------------------------------------------------------------------------
(* Properties.                                                             *)

Ended == result.outcome # "pending"

AboveBoth == args.stock_price > args.ma20 /\ args.stock_price > args.ma50
BelowBoth == args.stock_price < args.ma20 /\ args.stock_price < args.ma50

\* C1: an observation with delta below 0.35 gets the verdict Avoid with
\* exactly one reason, whatever the other inputs are, and no category is
\* evaluated for it.
C1_PreFilterAvoid ==
    (Ended /\ args.delta < 35) =>
        /\ result.outcome = "returned"
        /\ result.verdict = "Avoid"
        /\ Len(result.reasons) = 1
        /\ result.points = <<>>

\* the ninth category as the claim C2 words it: premium below 0.25 with
\* delta at least 0.35 adds 1, premium above 1.00 with delta below 0.3
\* takes 1 away
CheapExpensive(a) ==
    IF a.premium < 25 /\ a.delta >= 35 THEN 1
    ELSE IF a.premium > 100 /\ a.delta < 30 THEN -1
    ELSE 0

\* C2: off the pre-filter path the call returns, and the score behind the
\* verdict is the sum of nine category contributions, the ninth being the
\* cheap/expensive premium-vs-delta heuristic.
C2_ScoreIsSumOfNine ==
    (Ended /\ args.delta >= 35) =>
        /\ result.outcome = "returned"
        /\ Len(result.points) = 9
        /\ result.points[9] = CheapExpensive(args)
        /\ result.score = SumSeq(result.points)

C4_NeverRaises ==
    (Ended /\ args.option_type \in {"call", "put"}) =>
        result.outcome = "returned"

\* C5: a failure on one row never aborts the batch: when main is over,
\* every row of the batch has its own error report or its verdict.
C5_RowErrorsIsolated ==
    phase = "done" => Len(reports) + Len(verdicts) = nrows

\* C6: with premium 0 the call does not raise, and for a put whose strike
\* is above the underlying price the premium composition category adds 0
\* with the reason "Premium mix ok".
C6_ZeroPremiumNeutral ==
    (Ended /\ args.premium = 0) =>
        /\ result.outcome = "returned"
        /\ (args.option_type = "put" /\ strike > args.stock_price) =>
               /\ Len(result.points) = 8
               /\ result.points[8] = 0
               /\ result.reasons[Len(result.reasons)] = "Premium mix ok"

\* C7: the liquidity contribution is monotone in volume and open interest,
\* is 0, 1 or 2, and is 2 exactly when both are at least 500.
C7_LiquidityMonotone ==
    liqOut # <<>> =>
        /\ \A i \in 1..2 :
             /\ liqOut[i] \in {0, 1, 2}
             /\ (liqOut[i] = 2) <=>
                    (liqIn[i].volume >= 500 /\ liqIn[i].open_interest >= 500)
        /\ (/\ liqIn[1].volume <= liqIn[2].volume
            /\ liqIn[1].open_interest <= liqIn[2].open_interest)
               => liqOut[1] <= liqOut[2]

\* C7 witness: the second observation is strictly more liquid and its
\* contribution is strictly higher
C7_HigherTierReached ==
    /\ liqOut # <<>>
    /\ liqIn[1].volume < liqIn[2].volume
    /\ liqIn[1].open_interest <= liqIn[2].open_interest
    /\ liqOut[1] < liqOut[2]

\* the reasons each category can append, in evaluation order
CategoryReasons ==
    <<{"Strong uptrend", "Weak uptrend or downtrend", "Strong downtrend",
       "Weak downtrend or uptrend"},
      {"RSI in bullish range", "RSI high", "RSI in bearish range", "RSI low"},
      {"High delta", "Moderate delta", "Low delta"},
      {"Very high IV", "Moderate IV", "Low IV"},
      {"High liquidity", "High volume", "Moderate liquidity",
       "Moderate volume, low open interest", "Low liquidity"},
      {"Very short time to expiration with high delta",
       "Very short time to expiration with low delta",
       "Moderate time to expiration", "Longer time to expiration",
       "Expiration beyond 30 days"},
      {"Deep ITM call", "Slightly ITM call", "Near ATM call", "OTM call",
       "Deep ITM put", "Slightly ITM put", "Near ATM put", "OTM put"},
      {"Mostly intrinsic value", "Decent balance of intrinsic and extrinsic",
       "Mostly extrinsic value", "Premium mix ok"}>>

\* C8: every evaluated category appends exactly one reason, also when it
\* adds 0 (the momentum category for every RSI, call or put), so there are
\* as many reasons as evaluated categories, in category order.
C8_OneReasonPerCategory ==
    Ended =>
        /\ Len(result.reasons) = Len(result.points)
        /\ \A i \in 1..Len(result.reasons) :
               result.reasons[i] \in CategoryReasons[i]

\* C9: an option_type other than call or put is an input error: no
\* category is scored for it as for a call or a put, no verdict is
\* produced, and the call ends in an error reported to the caller.
C9_UnknownTypeRejected ==
    (Ended /\ args.option_type \notin {"call", "put"}) =>
        /\ result.outcome # "returned"
        /\ result.verdict = "none"
        /\ result.points = <<>>
        /\ result.reasons = <<>>

\* C10 as stated: the trend category is three-valued: for a call, price
\* above both averages adds 2, below both takes 1 away, mixed adds 0; for
\* a put, below both adds 2 and above both takes 1 away.
C10_TrendThreeValued ==
    (Ended /\ args.option_type \in {"call", "put"}) =>
        LET t == result.points[1]
        IN  IF args.option_type = "call"
            THEN t = (IF AboveBoth THEN 2 ELSE IF BelowBoth THEN -1 ELSE 0)
            ELSE t = (IF BelowBoth THEN 2 ELSE IF AboveBoth THEN -1 ELSE 0)

\* C10 amended: the trend category is two-valued and mirrors on option
\* type: for a call, price above both averages adds 2 and every other case
\* (below both included) adds 0; for a put, price below both adds 2 and
\* every other case (above both included) adds 0.
C10_TrendTwoValued ==
    (Ended /\ args.option_type \in {"call", "put"}) =>
        LET t == result.points[1]
        IN  IF args.option_type = "call"
            THEN t = (IF AboveBoth THEN 2 ELSE 0)
            ELSE t = (IF BelowBoth THEN 2 ELSE 0)

\* C10 witness: a call with the price below both averages was evaluated
\* and the trend category added 0
C10_CallBelowBothAddsNothing ==
    /\ Ended /\ args.option_type = "call" /\ BelowBoth
    /\ result.points[1] = 0
    /\ result.reasons[1] = "Weak uptrend or downtrend"

====
